---------------------------- MODULE Spec2Model ----------------------------
(***************************************************************************)
(* A model of axigui: the device control facade (axy.py), the page layout  *)
(* of the plot control widget (main.py) and the layer registry of the      *)
(* vector data plot widget (vector_data_plot_widget.py).                   *)
(*                                                                         *)
(* Floating point numbers are modelled as exact rationals <<n, d>> in      *)
(* lowest terms with d > 0, extended with the IEEE non-finite values:      *)
(* <<1, 0>> is +inf, <<-1, 0>> is -inf and <<0, 0>> is nan.  Rounding is   *)
(* not modelled.                                                           *)
(***************************************************************************)
EXTENDS Integers, Sequences, FiniteSets, TLC

VARIABLES ctl, plot, axy, store, last

vars == <<ctl, plot, axy, store, last>>

---------------------------------------------------------------------------
(* Bounds of the model. *)

\* walk distances are drawn from -MaxWalk .. MaxWalk
MaxWalk == 2
\* layer identifiers handed to the plot widget are drawn from 1 .. MaxLayerId
MaxLayerId == 3

---------------------------------------------------------------------------
(* Arithmetic on the extended rationals.  With and With2 evaluate their    *)
(* arguments once and hand the values to F: a let that is not re-evaluated *)
(* at every use.                                                           *)

With(v, F(_)) == CHOOSE r \in {F(x) : x \in {v}} : TRUE

With2(v, w, F(_, _)) == CHOOSE r \in {F(x, y) : x \in {v}, y \in {w}} : TRUE

Abs(i) == IF i < 0 THEN -i ELSE i

Sgn(i) == IF i > 0 THEN 1 ELSE IF i < 0 THEN -1 ELSE 0

Gcd[a \in Nat, b \in Nat] == IF b = 0 THEN a ELSE Gcd[b, a % b]

\* n / d in lowest terms
Reduced[n \in Int, d \in Int] ==
    IF d = 0 THEN <<Sgn(n), 0>>
    ELSE <<(Sgn(d) * n) \div Gcd[Abs(n), Abs(d)], (Sgn(d) * d) \div Gcd[Abs(n), Abs(d)]>>

\* the rational n / d
Q(n, d) == Reduced[n, d]

Num == Int \X Int

NaN == <<0, 0>>

IsFinite(a) == a[2] # 0

IsNaN(a) == a = NaN

Sum[x \in Num, y \in Num] ==
    IF x[2] = 0 /\ y[2] = 0
    THEN (IF x = y THEN x ELSE NaN)
    ELSE Reduced[x[1] * y[2] + y[1] * x[2], x[2] * y[2]]

Product[x \in Num, y \in Num] == Reduced[x[1] * y[1], x[2] * y[2]]

Less[x \in Num, y \in Num] ==
    IF x = NaN \/ y = NaN THEN FALSE
    ELSE IF x[2] = 0 /\ y[2] = 0 THEN x[1] < y[1]
    ELSE x[1] * y[2] < y[1] * x[2]

Add(a, b) == Sum[a, b]

Neg(a) == Product[a, <<-1, 1>>]

Sub(a, b) == Sum[a, Neg(b)]

Mul(a, b) == Product[a, b]

\* 1 / a, with 1 / 0 = +inf as IEEE division gives for a positive zero
Inv(a) == With(a, LAMBDA x : Reduced[x[2], x[1]])

Div(a, b) == Product[a, Inv(b)]

Lt(a, b) == Less[a, b]

Le(a, b) == With2(a, b, LAMBDA x, y : x # NaN /\ y # NaN /\ (x = y \/ Less[x, y]))

\* Python's min(a, b): b when b < a, else a
Min(a, b) == With2(a, b, LAMBDA x, y : IF Less[y, x] THEN y ELSE x)

Zero == Q(0, 1)

Two == Q(2, 1)

---------------------------------------------------------------------------
(* Drawings: a sequence of layers in iteration order, each a record with   *)
(* its identifier and its polylines; a polyline is a sequence of points.   *)

Pt(x, y) == <<Q(x, 1), Q(y, 1)>>

MapPoints(drawing, F(_)) ==
    CHOOSE r \in
        {[i \in 1..Len(vd) |->
            [lid   |-> vd[i].lid,
             lines |-> [j \in 1..Len(vd[i].lines) |->
                          [k \in 1..Len(vd[i].lines[j]) |-> F(vd[i].lines[j][k])]]]]
         : vd \in {drawing}} : TRUE

Range(f) == {f[i] : i \in DOMAIN f}

LinesOf(vd) == UNION {Range(layer.lines) : layer \in Range(vd)}

AllPoints(vd) == UNION {Range(line) : line \in LinesOf(vd)}

LayerIdsOf(vd) == {layer.lid : layer \in Range(vd)}

\* vpype.VectorData.translate / scale / rotate, as update_view calls them
Translate(vd, dx, dy) ==
    With2(dx, dy, LAMBDA x, y :
        MapPoints(vd, LAMBDA pt : <<Add(pt[1], x), Add(pt[2], y)>>))

Scale(vd, s) ==
    With(s, LAMBDA x : MapPoints(vd, LAMBDA pt : <<Mul(pt[1], x), Mul(pt[2], x)>>))

\* rotation by -pi/2: multiplication of x + iy by -i
RotateMinusHalfPi(vd) == MapPoints(vd, LAMBDA pt : <<pt[2], Neg(pt[1])>>)

IsEmpty(vd) == AllPoints(vd) = {}

MinOf(S) == CHOOSE m \in S : \A o \in S : Le(m, o)

MaxOf(S) == CHOOSE m \in S : \A o \in S : Le(o, m)

\* vpype.VectorData.bounds of a non-empty drawing: <<min_x, min_y, max_x, max_y>>
Bounds(vd) ==
    With(AllPoints(vd), LAMBDA pts :
        With2({pt[1] : pt \in pts}, {pt[2] : pt \in pts}, LAMBDA xs, ys :
            <<MinOf(xs), MinOf(ys), MaxOf(xs), MaxOf(ys)>>))

\* the drawings a user loads
DEmpty == <<>>

DWide ==
    <<[lid |-> 1, lines |-> <<<<Pt(0, 0), Pt(4, 2)>>>>],
      [lid |-> 2, lines |-> <<<<Pt(1, 1), Pt(3, 1)>>>>]>>

DTall ==
    <<[lid |-> 1, lines |-> <<<<Pt(1, 1), Pt(2, 5)>>, <<Pt(3, 2), Pt(3, 4)>>>>],
      [lid |-> 2, lines |-> <<<<Pt(1, 3), Pt(3, 3)>>>>]>>

DSquare ==
    <<[lid |-> 1, lines |-> <<<<Pt(0, 0), Pt(2, 2)>>>>],
      [lid |-> 3, lines |-> <<<<Pt(2, 0), Pt(0, 2)>>>>]>>

Drawings == {DEmpty, DWide, DTall, DSquare}

\* drawings whose bounding box has no width or no height
DVertical ==
    <<[lid |-> 2, lines |-> <<<<Pt(1, 1), Pt(1, 3)>>>>]>>

DPoint ==
    <<[lid |-> 1, lines |-> <<<<Pt(3, 3)>>>>]>>

DegenerateDrawings == {DVertical, DPoint}

---------------------------------------------------------------------------
(* Units and page formats. *)

Units == {"px", "cm", "mm", "in", "pc"}

\* vpype.convert(unit): pixels per unit at 96 pixels per inch
convert(unit) ==
    CASE unit = "px" -> Q(1, 1)
      [] unit = "cm" -> Q(9600, 254)
      [] unit = "mm" -> Q(960, 254)
      [] unit = "in" -> Q(96, 1)
      [] unit = "pc" -> Q(16, 1)

_mm_to_px(x, y) == <<Div(Mul(x, Q(960, 10)), Q(254, 10)), Div(Mul(y, Q(960, 10)), Q(254, 10))>>

PAGE_FORMATS(f) ==
    CASE f = "A6" -> _mm_to_px(Q(105, 1), Q(148, 1))
      [] f = "A5" -> _mm_to_px(Q(148, 1), Q(210, 1))
      [] f = "A4" -> _mm_to_px(Q(210, 1), Q(297, 1))
      [] f = "A3" -> _mm_to_px(Q(297, 1), Q(420, 1))
      [] f = "Letter" -> _mm_to_px(Q(2159, 10), Q(2794, 10))
      [] f = "Legal" -> _mm_to_px(Q(2159, 10), Q(3556, 10))
      [] f = "Executive" -> _mm_to_px(Q(18515, 100), Q(2667, 10))

\* the inputs the model draws for the layout setters
PageFormatInputs == {"A6", "A4"}

MarginValueInputs == {Q(2, 1), Q(6, 1)}

MarginUnitInputs == {"cm", "mm"}

---------------------------------------------------------------------------
(* The vector data plot widget (VectorDataPlotWidget).  Its state is the   *)
(* record plot; _layers is the layer registry in insertion order, each     *)
(* layer's lines the drawn primitives of the last redraw.  handlers is the *)
(* number of pick handlers connected to the canvas, legend the clickable   *)
(* legend entries of the last redraw.                                      *)

COLORS ==
    <<<<Q(0, 1), Q(0, 1), Q(1, 1)>>,
      <<Q(0, 1), Q(1, 2), Q(0, 1)>>,
      <<Q(1, 1), Q(0, 1), Q(0, 1)>>,
      <<Q(0, 1), Q(3, 4), Q(3, 4)>>,
      <<Q(0, 1), Q(1, 1), Q(0, 1)>>,
      <<Q(3, 4), Q(0, 1), Q(3, 4)>>,
      <<Q(3, 4), Q(3, 4), Q(0, 1)>>,
      <<Q(0, 1), Q(0, 1), Q(0, 1)>>>>

\* COLORS[color_idx:] + COLORS[:color_idx], color_idx counted from 0
RotateColors(color_idx) ==
    [i \in 1..Len(COLORS) |-> COLORS[((i - 1 + color_idx) % Len(COLORS)) + 1]]

IndexOfLayer(layers, lid) == CHOOSE i \in 1..Len(layers) : layers[i].lid = lid

HasLayer(layers, lid) == \E i \in 1..Len(layers) : layers[i].lid = lid

\* a layer map loop that never advanced its color index
BuildLayers_without_increment(vd, color_idx) ==
    [i \in 1..Len(vd) |->
        [lid |-> vd[i].lid, visible |-> TRUE,
         color |-> COLORS[color_idx + 1], lines |-> <<>>]]

\* the loop of the vector_data setter: one Layer per layer of the drawing
RECURSIVE BuildLayers(_, _)
BuildLayers(vd, color_idx) ==
    IF vd = <<>> THEN <<>>
    ELSE LET color == COLORS[color_idx + 1]
             inc   == color_idx + 1
         IN  With2(Tail(vd), IF inc >= Len(COLORS) THEN inc % Len(COLORS) ELSE inc,
                   LAMBDA rest, next :
                       <<[lid |-> Head(vd).lid, visible |-> TRUE,
                          color |-> color, lines |-> <<>>]>>
                           \o BuildLayers(rest, next))

\* the primitives _replot builds for one layer of the drawing
LayerPrimitives(p, layer_spec, color_idx) ==
    LET color        == IF p._colorful THEN RotateColors(color_idx) ELSE layer_spec.color
        marker_color == IF p._colorful THEN "k" ELSE <<layer_spec.color>>
    IN  <<[kind |-> "lines", color |-> color, visible |-> TRUE]>>
        \o (IF p._show_points
            THEN <<[kind |-> "points", color |-> marker_color, visible |-> TRUE]>>
            ELSE <<>>)
        \o (IF p._show_pen_up
            THEN <<[kind |-> "pen_up", color |-> COLORS[8], visible |-> TRUE]>>
            ELSE <<>>)

SetPrimitivesVisible(lines, v) ==
    [i \in 1..Len(lines) |-> [lines[i] EXCEPT !.visible = v]]

\* the drawing loop of _replot, in the order of the drawing's layers
RECURSIVE ReplotLayers(_, _, _, _)
ReplotLayers(p, vd, layers, color_idx) ==
    IF vd = <<>> THEN layers
    ELSE LET i    == IndexOfLayer(layers, Head(vd).lid)
             inc  == color_idx + Len(Head(vd).lines)
             next == IF ~p._colorful THEN color_idx
                     ELSE IF inc >= Len(COLORS) THEN inc % Len(COLORS) ELSE inc
             drawn == [layers EXCEPT ![i].lines = LayerPrimitives(p, layers[i], color_idx)]
         IN  With2(drawn, next, LAMBDA d, n :
                   With(Tail(vd), LAMBDA rest : ReplotLayers(p, rest, d, n)))

\* the registry after the drawing loop and the visibility pass of _replot
ReplottedLayers(p) ==
    With(ReplotLayers(p, p._vector_data, p._layers, 0), LAMBDA drawn :
        [i \in 1..Len(drawn) |->
            IF ~drawn[i].visible
            THEN [drawn[i] EXCEPT !.lines = SetPrimitivesVisible(@, FALSE)]
            ELSE drawn[i]])

\* the legend _replot draws: one clickable entry per layer of the drawing
LegendEntries(p) ==
    IF p._show_legend /\ Len(p._layers) > 0
    THEN [i \in 1..Len(p._vector_data) |->
            [lid |-> p._vector_data[i].lid, alpha |-> "default"]]
    ELSE <<>>

\* the axis limits matplotlib fits to what _replot draws: the page, in the
\* display unit
AutoFit(p) == [kind |-> "fit", page |-> p._page_format, unit |-> p._unit, zoom |-> 0]

\* the axis limits after a pan or zoom with the navigation toolbar
UserLims(zoom) == [kind |-> "user", page |-> <<>>, unit |-> "", zoom |-> zoom]

\* VectorDataPlotWidget._replot
_replot(widget) ==
    With(widget, LAMBDA p :
        [p EXCEPT !._init_lims = FALSE,
                  !.lims = IF p._init_lims THEN AutoFit(p) ELSE p.lims,
                  !._layers = ReplottedLayers(p),
                  !.legend = LegendEntries(p),
                  !.handlers = IF p._show_legend /\ Len(p._layers) > 0 THEN 1 ELSE 0,
                  !.replots = @ + 1])

\* replots counts the redraw passes of the handler that ran last
BeginHandler(p) == [p EXCEPT !.replots = 0]

\* the vector_data property setter
vector_data_setter(p, vd) ==
    _replot([p EXCEPT !._vector_data = vd,
                      !._init_lims = TRUE,
                      !._layers = BuildLayers(vd, 0)])

\* the page_format property setter
page_format_setter(p, size) ==
    _replot([p EXCEPT !._page_format = size, !._init_lims = TRUE])

\* the unit property setter
unit_setter(p, value) ==
    _replot([p EXCEPT !._unit = value,
                      !.settings["unit"] = value,
                      !._init_lims = TRUE])

\* a colorful setter that asked for a fresh viewport
colorful_setter_resetting(p, value) ==
    _replot([p EXCEPT !._colorful = value,
                      !.settings["colorful"] = value,
                      !._init_lims = TRUE])

colorful_setter(p, value) ==
    _replot([p EXCEPT !._colorful = value, !.settings["colorful"] = value])

show_points_setter(p, value) ==
    _replot([p EXCEPT !._show_points = value, !.settings["show_points"] = value])

show_pen_up_setter(p, value) ==
    _replot([p EXCEPT !._show_pen_up = value, !.settings["show_pen_up"] = value])

show_axes_setter(p, value) ==
    _replot([p EXCEPT !._show_axes = value,
                      !._show_grid = value,
                      !.settings["show_axes"] = value,
                      !.settings["show_grid"] = value])

show_legend_setter(p, value) ==
    _replot([p EXCEPT !._show_legend = value, !.settings["show_legend"] = value])

\* a set_layer_visible that redrew the whole plot
set_layer_visible_and_replot(p, layer_id, visible) ==
    IF HasLayer(p._layers, layer_id)
    THEN LET i == IndexOfLayer(p._layers, layer_id)
         IN  _replot([p EXCEPT !._layers[i].visible = visible])
    ELSE p

\* VectorDataPlotWidget.set_layer_visible
set_layer_visible(p, layer_id, visible) ==
    IF HasLayer(p._layers, layer_id)
    THEN LET i == IndexOfLayer(p._layers, layer_id)
         IN  [p EXCEPT !._layers[i].visible = visible,
                       !._layers[i].lines = SetPrimitivesVisible(@, visible)]
    ELSE p

\* a pick handler that hid the layer whatever its flag was
on_pick_hiding(p, layer_id) ==
    LET i == IndexOfLayer(p._layers, layer_id)
        e == IndexOfLayer(p.legend, layer_id)
    IN  [p EXCEPT !._layers[i].visible = FALSE,
                  !._layers[i].lines = SetPrimitivesVisible(@, FALSE),
                  !.legend[e].alpha = "0.2"]

\* the pick handler _replot connects: a click on the legend entry of layer_id
on_pick(p, layer_id) ==
    LET i == IndexOfLayer(p._layers, layer_id)
        e == IndexOfLayer(p.legend, layer_id)
        v == ~p._layers[i].visible
    IN  [p EXCEPT !._layers[i].visible = v,
                  !._layers[i].lines = SetPrimitivesVisible(@, v),
                  !.legend[e].alpha = IF v THEN "1.0" ELSE "0.2"]

\* the names an instance of VectorDataPlotWidget binds: those of its class body
WidgetAttributes ==
    {"Layer", "__init__", "vector_data", "page_format", "unit", "colorful",
     "show_points", "show_pen_up", "show_axes", "show_legend",
     "set_layer_visible", "get_item_model", "_replot"}

\* self.plot.<name>(lid) as the control widget calls it: the attribute lookup
\* raises when the class binds no such name, and the call then has no value
CallAccessor(p, name, lid) ==
    IF name \in WidgetAttributes
    THEN [err |-> "none", value |-> FALSE]
    ELSE [err |-> "AttributeError", value |-> FALSE]

layer_visible(p, lid) == CallAccessor(p, "layer_visible", lid)

layer_color(p, lid) == CallAccessor(p, "layer_color", lid)

---------------------------------------------------------------------------
(* The device control facade (Axy).  options are the driver's options,     *)
(* svg_input what plot_setup was last given, and runs the driver runs      *)
(* (plot_run) of the facade call made last, each a snapshot of the fields  *)
(* the driver reads.                                                       *)

DeviceOptions == {"pen_pos_up", "model"}

OptionNames ==
    {"mode", "manual_cmd", "walk_dist", "auto_rotate", "pen_pos_down"} \cup DeviceOptions

OptionValueInputs == {1, 2}

WalkInputs == (-MaxWalk)..MaxWalk

BeginCall(a) == [a EXCEPT !.runs = <<>>]

\* AxiDraw.plot_run: one synchronous run of the driver
plot_run(a) ==
    [a EXCEPT !.runs = Append(@, [mode       |-> a.options["mode"],
                                  manual_cmd |-> a.options["manual_cmd"],
                                  walk_dist  |-> a.options["walk_dist"],
                                  svg_input  |-> a.svg_input])]

\* the driver's input before any plot_setup: no document
NoSvg == [page_format |-> <<>>, lines |-> <<>>]

Axy__init__ ==
    [alive     |-> TRUE,
     options   |-> [o \in OptionNames |-> IF o = "auto_rotate" THEN "False" ELSE "default"],
     svg_input |-> NoSvg,
     runs      |-> <<>>]

\* a set_option that also ran the driver
Axy_set_option_and_run(a, option, value) ==
    plot_run([a EXCEPT !.options[option] = value])

Axy_set_option(a, option, value) == [a EXCEPT !.options[option] = value]

\* a walk_x without the test for a zero distance
Axy_walk_x_unguarded(a, x) ==
    plot_run([a EXCEPT !.options["mode"] = "manual",
                       !.options["manual_cmd"] = "walk_x",
                       !.options["walk_dist"] = x])

Axy_walk_x(a, x) ==
    IF x = 0 THEN a
    ELSE plot_run([a EXCEPT !.options["mode"] = "manual",
                            !.options["manual_cmd"] = "walk_x",
                            !.options["walk_dist"] = x])

Axy_walk_y(a, y) ==
    IF y = 0 THEN a
    ELSE plot_run([a EXCEPT !.options["mode"] = "manual",
                            !.options["manual_cmd"] = "walk_y",
                            !.options["walk_dist"] = y])

Axy_plot_svg(a, svg) ==
    plot_run([a EXCEPT !.svg_input = svg, !.options["mode"] = "plot"])

Axy_shutdown(a) ==
    plot_run([a EXCEPT !.options["mode"] = "manual",
                       !.options["manual_cmd"] = "disable_xy"])

Axy_pen_up(a) ==
    plot_run([a EXCEPT !.options["mode"] = "manual",
                       !.options["manual_cmd"] = "raise_pen"])

Axy_pen_down(a) ==
    plot_run([a EXCEPT !.options["mode"] = "manual",
                       !.options["manual_cmd"] = "lower_pen"])

\* Axy.__del__: after it the facade object is gone
\* the model number the model selector holds as the data of its item at index
ModelItemData(index) == index + 1

\* AxySettingsSpinBox._update_value: st is the persistent store of the device
\* options
AxySettingsSpinBox_update_value(st, a, key, value) ==
    [store |-> [st EXCEPT ![key] = value], axy |-> Axy_set_option(a, key, value)]

\* a model selector that stored the model number it forwarded
model_currentIndexChanged_storing_data(st, a, index) ==
    [store |-> [st EXCEPT !["model"] = ModelItemData(index)],
     axy   |-> Axy_set_option(a, "model", ModelItemData(index))]

\* the two handlers of the model selector's currentIndexChanged
model_currentIndexChanged(st, a, index) ==
    [store |-> [st EXCEPT !["model"] = index],
     axy   |-> Axy_set_option(a, "model", ModelItemData(index))]

\* a teardown that left the motors alone
Axy__del__without_shutdown(a) == [a EXCEPT !.alive = FALSE]

Axy__del__(a) == [Axy_shutdown(a) EXCEPT !.alive = FALSE]

---------------------------------------------------------------------------
(* The plot control widget (PlotControlWidget).  Its state is the record   *)
(* ctl: the base drawing, the placed drawing, the layout settings, the     *)
(* persisted "plot_control" settings and the layer list's model.           *)

EffectivePage(c) ==
    With(PAGE_FORMATS(c.page_format), LAMBDA size :
        IF c.landscape THEN <<size[2], size[1]>> ELSE size)

\* the copy of base after the rotation step of update_view
RotatedCopy(base, c) ==
    IF c.rotated
    THEN Translate(RotateMinusHalfPi(base), Zero, EffectivePage(c)[2])
    ELSE base

\* the fit_page branch of update_view
FitPage(vd, bounds, width, height, margin) ==
    LET min_x == bounds[1]
        min_y == bounds[2]
        max_x == bounds[3]
        max_y == bounds[4]
    IN  With2(Div(Sub(width, Mul(Two, margin)), Sub(max_x, min_x)),
              Div(Sub(height, Mul(Two, margin)), Sub(max_y, min_y)),
              LAMBDA factor_x, factor_y :
        With(Min(factor_x, factor_y), LAMBDA scale :
        With(Scale(Translate(vd, Neg(min_x), Neg(min_y)), scale), LAMBDA scaled :
            IF Lt(factor_x, factor_y)
            THEN Translate(scaled, margin,
                     Add(margin,
                         Div(Sub(Sub(height, Mul(Two, margin)),
                                 Mul(Sub(max_y, min_y), scale)), Two)))
            ELSE Translate(scaled,
                     Add(margin,
                         Div(Sub(Sub(width, Mul(Two, margin)),
                                 Mul(Sub(max_x, min_x), scale)), Two)),
                     margin))))

\* a centering that took the drawing to start at the origin
CenterOnPage_from_origin(vd, bounds, width, height) ==
    Translate(vd,
              Div(Sub(width, Sub(bounds[3], bounds[1])), Two),
              Div(Sub(height, Sub(bounds[4], bounds[2])), Two))

\* the center branch of update_view
CenterOnPage(vd, bounds, width, height) ==
    LET min_x == bounds[1]
        min_y == bounds[2]
        max_x == bounds[3]
        max_y == bounds[4]
    IN  Translate(vd,
                  Sub(Div(Sub(width, Sub(max_x, min_x)), Two), min_x),
                  Sub(Div(Sub(height, Sub(max_y, min_y)), Two), min_y))

\* the placement of update_view on a non-empty rotated copy.  A division by a
\* zero extent raises ZeroDivisionError when bounds() hands back Python floats
\* (raises = TRUE) and follows IEEE when it hands back numpy floats
\* (raises = FALSE); which one is up to the vpype build.
Placement(vd, bounds, size, c, raises) ==
    LET width  == size[1]
        height == size[2]
    IN  With(Mul(c.margin_value, convert(c.margin_unit)), LAMBDA margin :
            IF c.fit_page
            THEN IF raises /\ (bounds[3] = bounds[1] \/ bounds[4] = bounds[2])
                 THEN [vector_data |-> vd, err |-> "ZeroDivisionError"]
                 ELSE [vector_data |-> FitPage(vd, bounds, width, height, margin),
                       err |-> "none"]
            ELSE IF c.center
            THEN [vector_data |-> CenterOnPage(vd, bounds, width, height),
                  err |-> "none"]
            ELSE [vector_data |-> vd, err |-> "none"])

\* update_view up to the configuration of the plot widget: the placed copy of base
PlacedCopy(base, c, raises) ==
    With(RotatedCopy(base, c), LAMBDA vd :
        IF IsEmpty(vd) THEN [vector_data |-> vd, err |-> "none"]
        ELSE With2(Bounds(vd), EffectivePage(c), LAMBDA bounds, size :
                 Placement(vd, bounds, size, c, raises)))

\* whether bounds() of a drawing has a zero width or height: the one case in
\* which the two float types differ
ZeroExtent(vd) ==
    /\ ~IsEmpty(vd)
    /\ With(Bounds(vd), LAMBDA b : b[1] = b[3] \/ b[2] = b[4])

RaisesOutcomes(vd) == IF ZeroExtent(vd) THEN BOOLEAN ELSE {FALSE}

\* a copy that shared its lines with the original
shared_reference(original, transformed) == transformed

\* copy.deepcopy in update_view: what the original is once its copy has been
\* transformed.  A deep copy shares nothing with the original.
deepcopy(original, transformed) == original

\* PlotControlWidget.update_view
update_view(c, p, raises) ==
    With(PlacedCopy(c.base_vector_data, c, raises), LAMBDA placed :
        With([c EXCEPT !.base_vector_data = deepcopy(@, placed.vector_data),
                       !.vector_data = placed.vector_data], LAMBDA c1 :
            IF placed.err # "none"
            THEN [ctl |-> c1, plot |-> p, err |-> placed.err]
            ELSE [ctl  |-> c1,
                  plot |-> page_format_setter(vector_data_setter(p, placed.vector_data),
                                              EffectivePage(c)),
                  err  |-> "none"]))

\* the loop of set_vector_data that builds the layer list's items
RECURSIVE ListItems(_, _)
ListItems(p, vd) ==
    IF vd = <<>> THEN [err |-> "none", items |-> <<>>]
    ELSE With2(layer_visible(p, Head(vd).lid), layer_color(p, Head(vd).lid),
               LAMBDA visible, color :
             IF visible.err # "none" THEN [err |-> visible.err, items |-> <<>>]
             ELSE IF color.err # "none" THEN [err |-> color.err, items |-> <<>>]
             ELSE With(ListItems(p, Tail(vd)), LAMBDA rest :
                 IF rest.err # "none" THEN rest
                 ELSE [err   |-> "none",
                       items |-> <<[lid |-> Head(vd).lid, checked |-> visible.value,
                                    color |-> color.value]>> \o rest.items]))

\* PlotControlWidget.set_vector_data
set_vector_data(c, p, vector_data, raises) ==
    With(update_view([c EXCEPT !.base_vector_data = vector_data], p, raises),
         LAMBDA view :
        IF view.err # "none" THEN view
        ELSE With(ListItems(view.plot, vector_data), LAMBDA built :
                IF built.err # "none" THEN [view EXCEPT !.err = built.err]
                ELSE [view EXCEPT !.ctl.list = built.items]))

set_page_format(c, p, page_format, raises) ==
    update_view([c EXCEPT !.page_format = page_format,
                          !.settings["page_format"] = page_format], p, raises)

set_landscape(c, p, landscape, raises) ==
    update_view([c EXCEPT !.landscape = landscape,
                          !.settings["landscape"] = landscape], p, raises)

set_rotated(c, p, rotated, raises) ==
    update_view([c EXCEPT !.rotated = rotated,
                          !.settings["rotated"] = rotated], p, raises)

set_center(c, p, center, raises) ==
    update_view([c EXCEPT !.center = center,
                          !.settings["center"] = center], p, raises)

set_fit_page(c, p, fit_page, raises) ==
    update_view([c EXCEPT !.fit_page = fit_page,
                          !.settings["fit_page"] = fit_page], p, raises)

\* a set_margin that ran update_view on every call
set_margin_always_update_view(c, p, value, unit, raises) ==
    update_view([c EXCEPT !.margin_value = value,
                          !.margin_unit = unit,
                          !.settings["margin_value"] = value,
                          !.settings["margin_unit"] = unit], p, raises)

set_margin(c, p, value, unit, raises) ==
    LET c1 == [c EXCEPT !.margin_value = value,
                        !.margin_unit = unit,
                        !.settings["margin_value"] = value,
                        !.settings["margin_unit"] = unit]
    IN  IF c.fit_page
        THEN update_view(c1, p, raises)
        ELSE [ctl |-> c1, plot |-> p, err |-> "none"]

\* the loop of plot_svg: the lines of the layers the plot widget reports visible,
\* all added to layer 1 of a new drawing
RECURSIVE VisibleLines(_, _)
VisibleLines(p, vd) ==
    IF vd = <<>> THEN [err |-> "none", lines |-> <<>>]
    ELSE With(layer_visible(p, Head(vd).lid), LAMBDA visible :
             IF visible.err # "none" THEN [err |-> visible.err, lines |-> <<>>]
             ELSE With(VisibleLines(p, Tail(vd)), LAMBDA rest :
                 IF rest.err # "none" THEN rest
                 ELSE [err   |-> "none",
                       lines |-> (IF visible.value THEN Head(vd).lines ELSE <<>>)
                                     \o rest.lines]))

\* vpype.write_svg of a drawing holding lines in layer 1: the text is modelled
\* by the page size and the lines it carries
write_svg(lines, page_format) == [page_format |-> page_format, lines |-> lines]

\* PlotControlWidget.plot_svg
plot_svg(c, p, a) ==
    With(VisibleLines(p, c.vector_data), LAMBDA vd :
        IF vd.err # "none"
        THEN [axy |-> a, err |-> vd.err]
        ELSE [axy |-> Axy_plot_svg(a, write_svg(vd.lines, p._page_format)),
              err |-> "none"])

---------------------------------------------------------------------------
(* The state after construction, and one action per handler.  last names   *)
(* the handler that ran last, its arguments and the exception it raised.   *)

\* VectorDataPlotWidget.__init__, with the defaults of its settings
VectorDataPlotWidget__init__ ==
    [_vector_data  |-> <<>>,
     _page_format  |-> <<Q(100, 1), Q(100, 1)>>,
     _init_lims    |-> TRUE,
     _layers       |-> <<>>,
     _unit         |-> "cm",
     _colorful     |-> FALSE,
     _show_points  |-> FALSE,
     _show_pen_up  |-> FALSE,
     _show_axes    |-> FALSE,
     _show_grid    |-> FALSE,
     _show_legend  |-> TRUE,
     settings      |-> [unit |-> "cm", colorful |-> FALSE, show_points |-> FALSE,
                        show_pen_up |-> FALSE, show_axes |-> FALSE,
                        show_grid |-> FALSE, show_legend |-> TRUE],
     legend        |-> <<>>,
     handlers      |-> 0,
     lims          |-> [kind |-> "default", page |-> <<>>, unit |-> "", zoom |-> 0],
     replots       |-> 0]

\* PlotControlWidget.__init__ up to its first update_view, with the defaults
\* of its settings
PlotControlWidget__init__ ==
    update_view([base_vector_data |-> <<>>,
                 vector_data      |-> <<>>,
                 page_format      |-> "A4",
                 landscape        |-> FALSE,
                 rotated          |-> FALSE,
                 center           |-> TRUE,
                 fit_page         |-> FALSE,
                 margin_value     |-> Q(2, 1),
                 margin_unit      |-> "cm",
                 settings         |-> [page_format |-> "A4", landscape |-> FALSE,
                                       rotated |-> FALSE, center |-> TRUE,
                                       fit_page |-> FALSE, margin_value |-> Q(2, 1),
                                       margin_unit |-> "cm"],
                 list             |-> <<>>],
                VectorDataPlotWidget__init__, FALSE)

\* the two pen position spin boxes PlotControlWidget.__init__ builds: each
\* pushes its first value to the facade
PenPositionSpinBoxes(st, a) ==
    With(AxySettingsSpinBox_update_value(st, a, "pen_pos_up", 60), LAMBDA up :
        AxySettingsSpinBox_update_value(up.store, up.axy, "pen_pos_down", 40))

\* the persistent store of the device options on a first run: the model
\* selector reads index 0
QSettings__init__ == [pen_pos_up |-> 0, pen_pos_down |-> 0, model |-> 0]

Init ==
    /\ ctl = PlotControlWidget__init__.ctl
    /\ plot = PlotControlWidget__init__.plot
    /\ axy = PenPositionSpinBoxes(QSettings__init__, Axy__init__).axy
    /\ store = PenPositionSpinBoxes(QSettings__init__, Axy__init__).store
    /\ last = [op |-> "__init__", arg |-> <<>>, err |-> "none"]

\* a handler of the control widget returned view; it made no facade call
Handled(result, op, arg) ==
    \E view \in {result} :
        /\ ctl' = view.ctl
        /\ plot' = view.plot
        /\ axy' = BeginCall(axy)
        /\ last' = [op |-> op, arg |-> arg, err |-> view.err]
        /\ UNCHANGED store

\* a property of the plot widget was assigned, or one of its methods called
PlotHandled(p, op, arg) ==
    /\ plot' = p
    /\ axy' = BeginCall(axy)
    /\ last' = [op |-> op, arg |-> arg, err |-> "none"]
    /\ UNCHANGED <<ctl, store>>

\* a method of the facade returned a
AxyHandled(a, op, arg) ==
    /\ axy' = a
    /\ plot' = BeginHandler(plot)
    /\ last' = [op |-> op, arg |-> arg, err |-> "none"]
    /\ UNCHANGED <<ctl, store>>

LoadSvg ==
    /\ axy.alive
    /\ \E vd \in Drawings : \E raises \in RaisesOutcomes(vd) :
          Handled(set_vector_data(ctl, BeginHandler(plot), vd, raises),
                  "set_vector_data", <<>>)

\* drawings with more layers than the palette has colors, and with layer ids
\* out of numeric order
DMany ==
    [i \in 1..(Len(COLORS) + 1) |-> [lid |-> i, lines |-> <<<<Pt(i, 0), Pt(i + 1, 2)>>>>]]

DUnordered ==
    <<[lid |-> 3, lines |-> <<<<Pt(0, 0), Pt(2, 2)>>>>],
      [lid |-> 1, lines |-> <<<<Pt(2, 0), Pt(0, 2)>>>>],
      [lid |-> 2, lines |-> <<<<Pt(1, 0), Pt(1, 2)>>>>]>>

ManyLayerDrawings == {DMany, DUnordered}

LoadManyLayerSvg ==
    /\ axy.alive
    /\ \E vd \in ManyLayerDrawings : \E raises \in RaisesOutcomes(vd) :
          Handled(set_vector_data(ctl, BeginHandler(plot), vd, raises),
                  "set_vector_data", <<>>)

\* a load of a drawing without width or height
LoadDegenerateSvg ==
    /\ axy.alive
    /\ \E vd \in DegenerateDrawings : \E raises \in RaisesOutcomes(vd) :
          Handled(set_vector_data(ctl, BeginHandler(plot), vd, raises),
                  "set_vector_data", <<>>)

SetPageFormat ==
    /\ axy.alive
    /\ \E page_format \in PageFormatInputs, raises \in RaisesOutcomes(ctl.base_vector_data) :
          Handled(set_page_format(ctl, BeginHandler(plot), page_format, raises),
                  "set_page_format", <<page_format>>)

SetLandscape ==
    /\ axy.alive
    /\ \E landscape \in BOOLEAN, raises \in RaisesOutcomes(ctl.base_vector_data) :
          Handled(set_landscape(ctl, BeginHandler(plot), landscape, raises),
                  "set_landscape", <<landscape>>)

SetRotated ==
    /\ axy.alive
    /\ \E rotated \in BOOLEAN, raises \in RaisesOutcomes(ctl.base_vector_data) :
          Handled(set_rotated(ctl, BeginHandler(plot), rotated, raises),
                  "set_rotated", <<rotated>>)

SetCenter ==
    /\ axy.alive
    /\ \E center \in BOOLEAN, raises \in RaisesOutcomes(ctl.base_vector_data) :
          Handled(set_center(ctl, BeginHandler(plot), center, raises),
                  "set_center", <<center>>)

SetFitPage ==
    /\ axy.alive
    /\ \E fit_page \in BOOLEAN, raises \in RaisesOutcomes(ctl.base_vector_data) :
          Handled(set_fit_page(ctl, BeginHandler(plot), fit_page, raises),
                  "set_fit_page", <<fit_page>>)

SetMargin ==
    /\ axy.alive
    /\ \E value \in MarginValueInputs, unit \in MarginUnitInputs, raises \in RaisesOutcomes(ctl.base_vector_data) :
          Handled(set_margin(ctl, BeginHandler(plot), value, unit, raises),
                  "set_margin", <<value, unit>>)

SetUnit ==
    /\ axy.alive
    /\ \E value \in {"cm", "px"} :
          PlotHandled(unit_setter(BeginHandler(plot), value), "unit", <<>>)

SetColorful ==
    /\ axy.alive
    /\ \E value \in BOOLEAN :
          PlotHandled(colorful_setter(BeginHandler(plot), value), "colorful", <<>>)

SetShowPoints ==
    /\ axy.alive
    /\ \E value \in BOOLEAN :
          PlotHandled(show_points_setter(BeginHandler(plot), value), "show_points", <<>>)

SetShowPenUp ==
    /\ axy.alive
    /\ \E value \in BOOLEAN :
          PlotHandled(show_pen_up_setter(BeginHandler(plot), value), "show_pen_up", <<>>)

SetShowAxes ==
    /\ axy.alive
    /\ \E value \in BOOLEAN :
          PlotHandled(show_axes_setter(BeginHandler(plot), value), "show_axes", <<>>)

SetShowLegend ==
    /\ axy.alive
    /\ \E value \in BOOLEAN :
          PlotHandled(show_legend_setter(BeginHandler(plot), value), "show_legend", <<>>)

\* the user pans or zooms the plot with the navigation toolbar
ZoomInputs == {1, 2}

Zoom ==
    /\ axy.alive
    /\ \E zoom \in ZoomInputs :
          PlotHandled([BeginHandler(plot) EXCEPT !.lims = UserLims(zoom)], "zoom", zoom)

SetLayerVisible ==
    /\ axy.alive
    /\ \E layer_id \in 1..MaxLayerId, visible \in BOOLEAN :
          PlotHandled(set_layer_visible(BeginHandler(plot), layer_id, visible),
                      "set_layer_visible", <<layer_id, visible>>)

\* the user clicks a legend entry while a pick handler is connected
OnPick ==
    /\ axy.alive
    /\ plot.handlers > 0
    /\ \E e \in 1..Len(plot.legend) :
          PlotHandled(on_pick(BeginHandler(plot), plot.legend[e].lid),
                      "on_pick", plot.legend[e].lid)

\* the PLOT button
PlotSvg ==
    /\ axy.alive
    /\ \E done \in {plot_svg(ctl, plot, BeginCall(axy))} :
           /\ axy' = done.axy
           /\ plot' = BeginHandler(plot)
           /\ last' = [op |-> "plot_svg", arg |-> <<>>, err |-> done.err]
           /\ UNCHANGED <<ctl, store>>

\* the UP, DOWN and OFF buttons
PenUp == axy.alive /\ AxyHandled(Axy_pen_up(BeginCall(axy)), "pen_up", <<>>)

PenDown == axy.alive /\ AxyHandled(Axy_pen_down(BeginCall(axy)), "pen_down", <<>>)

Shutdown == axy.alive /\ AxyHandled(Axy_shutdown(BeginCall(axy)), "shutdown", <<>>)

\* the remaining methods of the facade, called on the facade itself
SvgInputs ==
    {write_svg(<<>>, PAGE_FORMATS("A4")), write_svg(DWide[1].lines, PAGE_FORMATS("A4"))}

AxyPlotSvg ==
    /\ axy.alive
    /\ \E svg \in SvgInputs :
          AxyHandled(Axy_plot_svg(BeginCall(axy), svg), "Axy.plot_svg", svg)

\* a settings-bound control changed, and called set_option(option, value)
OptionChanged(changed, option, value) ==
    /\ store' = changed.store
    /\ axy' = changed.axy
    /\ plot' = BeginHandler(plot)
    /\ last' = [op |-> "set_option", arg |-> <<option, value>>, err |-> "none"]
    /\ UNCHANGED ctl

SpinBoxOptions == {"pen_pos_up"}

ModelIndexInputs == {0, 1}

\* the user changes a spin box of a device option, or the model selector: the
\* control signals a value other than the one it shows, which is the stored one
SetOption ==
    /\ axy.alive
    /\ \/ \E option \in SpinBoxOptions : \E value \in OptionValueInputs \ {store[option]} :
              OptionChanged(AxySettingsSpinBox_update_value(store, BeginCall(axy),
                                                            option, value),
                            option, value)
       \/ \E index \in ModelIndexInputs \ {store["model"]} :
              OptionChanged(model_currentIndexChanged(store, BeginCall(axy), index),
                            "model", ModelItemData(index))

WalkX ==
    /\ axy.alive
    /\ \E x \in WalkInputs : AxyHandled(Axy_walk_x(BeginCall(axy), x), "walk_x", x)

WalkY ==
    /\ axy.alive
    /\ \E y \in WalkInputs : AxyHandled(Axy_walk_y(BeginCall(axy), y), "walk_y", y)

\* teardown of the facade object
Del == axy.alive /\ AxyHandled(Axy__del__(BeginCall(axy)), "__del__", <<>>)

NextAxy ==
    \/ SetOption \/ WalkX \/ WalkY \/ AxyPlotSvg
    \/ PenUp \/ PenDown \/ Shutdown \/ Del

NextLayout ==
    \/ LoadSvg \/ SetPageFormat \/ SetLandscape \/ SetRotated
    \/ SetCenter \/ SetFitPage \/ SetMargin

NextPlot ==
    \/ LoadSvg \/ SetLandscape \/ SetShowPoints \/ SetShowLegend
    \/ SetLayerVisible \/ OnPick \/ PlotSvg

NextDisplay ==
    \/ SetUnit \/ SetColorful \/ SetShowPenUp \/ SetShowAxes

NextViewport ==
    \/ LoadSvg \/ SetUnit \/ SetColorful \/ SetShowPoints \/ SetShowPenUp
    \/ SetShowAxes \/ SetShowLegend \/ Zoom

NextPalette ==
    \/ LoadManyLayerSvg \/ SetColorful \/ SetShowPoints \/ SetShowLegend
    \/ SetLayerVisible

NextDegenerate ==
    \/ LoadDegenerateSvg \/ SetRotated \/ SetFitPage \/ SetMargin

Next ==
    \/ NextAxy \/ NextLayout \/ NextPlot \/ NextDisplay \/ NextViewport
    \/ NextPalette \/ NextDegenerate

\* the facade alone
SpecAxy == Init /\ [][NextAxy]_vars

\* drawing loads and the layout setters
SpecLayout == Init /\ [][NextLayout]_vars

\* the plot widget under drawing assignments, redraws and layer toggles
SpecPlot == Init /\ [][NextPlot]_vars

\* the viewport under redraws and the navigation toolbar
SpecViewport == Init /\ [][NextViewport]_vars

\* the layer colors of drawings with many layers
SpecPalette == Init /\ [][NextPalette]_vars

\* the layout of drawings without width or height
SpecDegenerate == Init /\ [][NextDegenerate]_vars

Spec == Init /\ [][Next]_vars

---------------------------------------------------------------------------
(* The device control facade: claims C2, C3 and C4, under SpecAxy.         *)

\* the one driver run a manual command makes
ManualRun(a, cmd) ==
    <<[mode |-> "manual", manual_cmd |-> cmd,
       walk_dist |-> a.options["walk_dist"], svg_input |-> a.svg_input]>>

\* C2: walk_x(0) and walk_y(0) make no driver run and leave the driver's options
\* alone; walk_x(d) and walk_y(d) with d # 0 make exactly one run, in mode
\* "manual", with the matching walk command and walk distance d.
C2_WalkContract ==
    [][last'.op \in {"walk_x", "walk_y"} =>
          IF last'.arg = 0
          THEN /\ axy'.runs = <<>>
               /\ axy'.options = axy.options
               /\ axy'.svg_input = axy.svg_input
          ELSE /\ axy'.runs = ManualRun(axy', last'.op)
               /\ axy'.options["walk_dist"] = last'.arg
               /\ axy'.options["mode"] = "manual"
               /\ axy'.options["manual_cmd"] = last'.op]_vars

\* walk_x(0) was called after a walk_y had run, and left its command in place
C2_Witness ==
    /\ last.op = "walk_x"
    /\ last.arg = 0
    /\ axy.runs = <<>>
    /\ axy.options["manual_cmd"] = "walk_y"

FacadeRunOps == {"Axy.plot_svg", "pen_up", "pen_down", "shutdown", "walk_x", "walk_y"}

\* C3 as stated: every facade operation, set_option included, makes exactly one
\* driver run per call (walks with a non-zero distance).
C3_EveryOperationRunsOnce ==
    (/\ last.op \in FacadeRunOps \cup {"set_option"}
     /\ last.op \in {"walk_x", "walk_y"} => last.arg # 0)
        => Len(axy.runs) = 1

\* C3 as amended: plot_svg, pen_up, pen_down, shutdown and the non-zero walks set
\* the driver's mode (and the manual command) and make exactly one run;
\* set_option assigns the named option only and makes no run.
C3_RunOnceExceptSetOption ==
    [][/\ last'.op = "pen_up" => axy'.runs = ManualRun(axy', "raise_pen")
       /\ last'.op = "pen_down" => axy'.runs = ManualRun(axy', "lower_pen")
       /\ last'.op = "shutdown" => axy'.runs = ManualRun(axy', "disable_xy")
       /\ (last'.op \in {"walk_x", "walk_y"} /\ last'.arg # 0)
              => axy'.runs = ManualRun(axy', last'.op)
       /\ last'.op = "Axy.plot_svg"
              => axy'.runs = <<[mode |-> "plot",
                                manual_cmd |-> axy.options["manual_cmd"],
                                walk_dist |-> axy.options["walk_dist"],
                                svg_input |-> last'.arg]>>
       /\ last'.op = "set_option"
              => /\ axy'.runs = <<>>
                 /\ axy'.svg_input = axy.svg_input
                 /\ axy'.options[last'.arg[1]] = last'.arg[2]
                 /\ \A o \in OptionNames \ {last'.arg[1]} :
                        axy'.options[o] = axy.options[o]]_vars

\* set_option was called on a facade whose driver is in manual mode
C3_Witness ==
    /\ last.op = "set_option"
    /\ axy.runs = <<>>
    /\ axy.options[last.arg[1]] = last.arg[2]
    /\ axy.options["mode"] = "manual"

\* C4: once the facade is torn down, the teardown has made exactly one driver
\* run, the disable-motors command, and no run follows it.
C4_TeardownDisablesOnce ==
    ~axy.alive =>
        /\ last.op = "__del__"
        /\ axy.runs = ManualRun(axy, "disable_xy")

\* the facade was torn down after the driver had been used for a plot
C4_Witness ==
    /\ ~axy.alive
    /\ axy.svg_input # NoSvg
    /\ Len(axy.runs) = 1

---------------------------------------------------------------------------
(* The plot widget and the PLOT button: claims C1, C5, C9 and C10, under   *)
(* SpecPlot.                                                               *)

VisibleFlag(layers, lid) == layers[IndexOfLayer(layers, lid)].visible

\* the handlers of the control widget that end in update_view
LayoutOps ==
    {"set_vector_data", "set_page_format", "set_landscape", "set_rotated",
     "set_center", "set_fit_page", "set_margin"}

\* the step assigned a drawing to the plot widget
DrawingAssigned == last'.op \in LayoutOps /\ plot'.replots = 2

\* C1: an assignment of a drawing with the layer ids of the previous one keeps
\* every layer's visibility flag; an assignment of a drawing with another set
\* of layer ids makes every layer visible.
C1_VisibilityKeptAcrossAssignment ==
    [][DrawingAssigned =>
          IF LayerIdsOf(plot'._vector_data) = LayerIdsOf(plot._vector_data)
          THEN \A i \in 1..Len(plot'._layers) :
                   plot'._layers[i].visible
                       = VisibleFlag(plot._layers, plot'._layers[i].lid)
          ELSE \A i \in 1..Len(plot'._layers) : plot'._layers[i].visible]_vars

\* the lines of the layers of vd that the registry holds as visible
RECURSIVE LinesOfVisible(_, _)
LinesOfVisible(vd, layers) ==
    IF vd = <<>> THEN <<>>
    ELSE (IF VisibleFlag(layers, Head(vd).lid) THEN Head(vd).lines ELSE <<>>)
             \o LinesOfVisible(Tail(vd), layers)

\* C5: the PLOT button hands the facade's plot_svg exactly one document, which
\* holds the lines of the visible layers of the placed drawing and of no other.
C5_PlotSendsVisibleLayers ==
    last.op = "plot_svg" =>
        /\ last.err = "none"
        /\ Len(axy.runs) = 1
        /\ axy.runs[1].mode = "plot"
        /\ axy.runs[1].svg_input
               = write_svg(LinesOfVisible(ctl.vector_data, plot._layers),
                           plot._page_format)

\* C9: set_layer_visible(lid, v) on a known lid sets that layer's flag and the
\* visibility of each of its primitives to v, and leaves every other layer, the
\* drawing, the axes limits and the display settings as they were, without a
\* redraw pass; on an unknown lid it does nothing.
C9_SetLayerVisibleFrame ==
    [][last'.op = "set_layer_visible" =>
          LET lid == last'.arg[1]
              v   == last'.arg[2]
          IN  /\ last'.err = "none"
              /\ ctl' = ctl
              /\ plot'.replots = 0
              /\ [plot' EXCEPT !._layers = plot._layers, !.replots = plot.replots] = plot
              /\ Len(plot'._layers) = Len(plot._layers)
              /\ \A i \in 1..Len(plot._layers) :
                    IF plot._layers[i].lid = lid
                    THEN /\ plot'._layers[i].visible = v
                         /\ plot'._layers[i].lid = lid
                         /\ plot'._layers[i].color = plot._layers[i].color
                         /\ Len(plot'._layers[i].lines) = Len(plot._layers[i].lines)
                         /\ \A k \in 1..Len(plot._layers[i].lines) :
                               plot'._layers[i].lines[k]
                                   = [plot._layers[i].lines[k] EXCEPT !.visible = v]
                    ELSE plot'._layers[i] = plot._layers[i]]_vars

\* layer 1 of a two-layer drawing was hidden, with its points drawn, while the
\* other layer stayed visible
C9_Witness ==
    /\ last.op = "set_layer_visible"
    /\ last.arg = <<1, FALSE>>
    /\ Len(plot._layers) = 2
    /\ plot._layers[1].lid = 1
    /\ ~plot._layers[1].visible
    /\ Len(plot._layers[1].lines) = 2
    /\ plot._layers[2].visible

\* C10: the calls of layer_visible and layer_color that set_vector_data and
\* plot_svg make never fail, and return the flag and the color the registry
\* holds for the layer.
C10_AccessorsNeverFail ==
    last.op \in {"set_vector_data", "plot_svg"} =>
        /\ last.err # "AttributeError"
        /\ \A i \in 1..Len(ctl.vector_data) :
              LET lid     == ctl.vector_data[i].lid
                  visible == layer_visible(plot, lid)
                  color   == layer_color(plot, lid)
              IN  /\ visible.err = "none"
                  /\ color.err = "none"
                  /\ visible.value = VisibleFlag(plot._layers, lid)
                  /\ color.value = plot._layers[IndexOfLayer(plot._layers, lid)].color

---------------------------------------------------------------------------
(* The page layout: claims C6, C7 and C8, under SpecLayout.                *)

\* C6: the placed drawing is the layout applied once to the base drawing, which
\* update_view leaves as it was loaded; a second update_view changes nothing, and
\* a margin set while fit_page is off leaves no stale placement behind.
C6_LayoutAppliedOnce ==
    /\ ctl.base_vector_data \in Drawings
    /\ ctl.vector_data = PlacedCopy(ctl.base_vector_data, ctl, FALSE).vector_data
    /\ plot._vector_data = ctl.vector_data
    /\ plot._page_format = EffectivePage(ctl)
    /\ update_view(ctl, plot, FALSE).ctl = ctl

\* the margin was set on a rotated, fitted drawing, which the layout moved
C6_Witness ==
    /\ last.op = "set_margin"
    /\ ctl.rotated
    /\ ctl.fit_page
    /\ ctl.base_vector_data = DWide
    /\ ctl.vector_data # ctl.base_vector_data
    /\ ctl.margin_value = Q(6, 1)

MarginPx(c) == Mul(c.margin_value, convert(c.margin_unit))

\* C7: with fit_page set and a non-empty drawing, the placed drawing's bounding
\* box lies inside the band the margin leaves on the page, touches the margin
\* on both sides of one axis and is centered on the other.
C7_FitInsideMargins ==
    (ctl.fit_page /\ ~IsEmpty(ctl.vector_data)) =>
        LET b      == Bounds(ctl.vector_data)
            width  == EffectivePage(ctl)[1]
            height == EffectivePage(ctl)[2]
            margin == MarginPx(ctl)
            right  == Sub(width, margin)
            bottom == Sub(height, margin)
        IN  /\ Le(margin, b[1]) /\ Le(b[3], right)
            /\ Le(margin, b[2]) /\ Le(b[4], bottom)
            /\ \/ b[1] = margin /\ b[3] = right /\ Add(b[2], b[4]) = height
               \/ b[2] = margin /\ b[4] = bottom /\ Add(b[1], b[3]) = width

\* the extents of a drawing's bounding box
Extents(vd) == With(Bounds(vd), LAMBDA b : <<Sub(b[3], b[1]), Sub(b[4], b[2])>>)

\* C8: with center set, fit_page off and a non-empty drawing, the center of the
\* placed drawing's bounding box is the center of the page, whatever margin and
\* rotated are, and the box has the extents of the base drawing's.
C8_CenteredOnPage ==
    (ctl.center /\ ~ctl.fit_page /\ ~IsEmpty(ctl.vector_data)) =>
        LET b    == Bounds(ctl.vector_data)
            size == EffectivePage(ctl)
            base == Extents(ctl.base_vector_data)
        IN  /\ Add(b[1], b[3]) = size[1]
            /\ Add(b[2], b[4]) = size[2]
            /\ Extents(ctl.vector_data)
                   = IF ctl.rotated THEN <<base[2], base[1]>> ELSE base

\* a rotated drawing was centered on a landscape page under the wide margin
C8_Witness ==
    /\ ctl.center
    /\ ~ctl.fit_page
    /\ ctl.rotated
    /\ ctl.landscape
    /\ ctl.base_vector_data = DTall
    /\ ctl.margin_value = Q(6, 1)
    /\ ctl.vector_data # ctl.base_vector_data

---------------------------------------------------------------------------
(* The viewport: claim C11, under SpecViewport.                            *)

DisplayOptionOps == {"colorful", "show_points", "show_pen_up", "show_axes", "show_legend"}

\* C11: a redraw caused by assigning a drawing or a page format, or by changing
\* the display unit, fits the axis limits anew; a redraw caused by changing
\* colorful, show_points, show_pen_up, show_axes or show_legend restores the
\* axis limits in effect just before it; the viewport-reset flag is false after
\* every redraw.
C11_ViewportAcrossRedraws ==
    [][/\ ~plot'._init_lims
       /\ (DrawingAssigned \/ last'.op = "unit")
              => /\ plot'.replots > 0
                 /\ plot'.lims = AutoFit(plot')
       /\ last'.op \in DisplayOptionOps
              => /\ plot'.replots = 1
                 /\ plot'.lims = plot.lims]_vars

\* show_points was switched on in a view the user had zoomed, which the redraw
\* kept
C11_Witness ==
    /\ last.op = "show_points"
    /\ plot._show_points
    /\ plot.replots = 1
    /\ plot.lims = UserLims(2)

---------------------------------------------------------------------------
(* The layout setters: claim C12, under SpecLayout.                        *)

\* the settings key each one-value layout setter writes
SetterKey ==
    [set_page_format |-> "page_format", set_landscape |-> "landscape",
     set_rotated |-> "rotated", set_center |-> "center", set_fit_page |-> "fit_page"]

\* the step stored the setter's value(s) in the widget and in its settings, and
\* left every other setting alone
Persisted ==
    IF last'.op = "set_margin"
    THEN /\ ctl'.margin_value = last'.arg[1]
         /\ ctl'.margin_unit = last'.arg[2]
         /\ ctl'.settings = [ctl.settings EXCEPT !.margin_value = last'.arg[1],
                                                 !.margin_unit = last'.arg[2]]
    ELSE /\ ctl'[SetterKey[last'.op]] = last'.arg[1]
         /\ ctl'.settings = [ctl.settings EXCEPT ![SetterKey[last'.op]] = last'.arg[1]]

\* the step ran update_view: the plot widget was handed the placed copy under
\* the new settings, and redrew for the drawing and for the page format
Relayout ==
    /\ plot'.replots = 2
    /\ ctl'.vector_data = PlacedCopy(ctl'.base_vector_data, ctl', FALSE).vector_data
    /\ plot'._vector_data = ctl'.vector_data
    /\ plot'._page_format = EffectivePage(ctl')

LayoutSetterOps == LayoutOps \ {"set_vector_data"}

---------------------------------------------------------------------------
(* The layer colors: claim C13, under SpecPalette.                         *)

\* C13: the i-th layer of the assigned drawing, counting from 0 in the
\* drawing's layer order, holds the palette color COLORS[i mod 8], also with
\* more than 8 layers, and keeps it under every later display-option change
\* and visibility toggle.
C13_RoundRobinColors ==
    /\ Len(plot._layers) = Len(plot._vector_data)
    /\ \A k \in 1..Len(plot._layers) :
          /\ plot._layers[k].lid = plot._vector_data[k].lid
          /\ plot._layers[k].color = COLORS[((k - 1) % Len(COLORS)) + 1]

\* a layer of the nine-layer drawing was hidden in colorful mode: the ninth
\* layer holds the first color of the palette
C13_Witness ==
    /\ last.op = "set_layer_visible"
    /\ plot._colorful
    /\ Len(plot._layers) = Len(COLORS) + 1
    /\ ~plot._layers[2].visible
    /\ plot._layers[Len(COLORS) + 1].color = COLORS[1]

---------------------------------------------------------------------------
(* The settings-bound controls: claim C14, under SpecAxy.                  *)

\* C14 as stated: a change of a device-option control, a spin box or the model
\* selector, stores under the option's key the value it forwards to set_option.
C14_PersistedEqualsForwarded ==
    [][last'.op = "set_option" =>
          /\ axy'.options[last'.arg[1]] = last'.arg[2]
          /\ store'[last'.arg[1]] = last'.arg[2]]_vars

\* C14 as amended: a change of a spin box stores under the option's key the
\* value it forwards to set_option; a change of the model selector forwards the
\* selected item's model number and stores the item's index, which is that
\* number less one; no other handler touches the store or a device option.
C14_PersistedMatchesForwarded ==
    [][/\ \A key \in {"pen_pos_up", "pen_pos_down"} : store'[key] = axy'.options[key]
       /\ last'.op = "set_option" =>
             LET key   == last'.arg[1]
                 value == last'.arg[2]
             IN  /\ axy'.options[key] = value
                 /\ IF key = "model"
                    THEN ModelItemData(store'[key]) = value
                    ELSE store'[key] = value
                 /\ \A k \in (DOMAIN store) \ {key} :
                        /\ store'[k] = store[k]
                        /\ axy'.options[k] = axy.options[k]
       /\ last'.op # "set_option" =>
             /\ store' = store
             /\ \A k \in DOMAIN store : axy'.options[k] = axy.options[k]]_vars

\* the second model was selected after the pen-up spin box had been changed
C14_Witness ==
    /\ last.op = "set_option"
    /\ last.arg = <<"model", 2>>
    /\ axy.options["model"] = 2
    /\ store["model"] = 1
    /\ store["pen_pos_up"] = 2
    /\ axy.options["pen_pos_up"] = 2

---------------------------------------------------------------------------
(* The legend: claim C15, under SpecPlot.                                  *)

\* the legend entry of layer lid is drawn dimmed
Dimmed(p, lid) == p.legend[IndexOfLayer(p.legend, lid)].alpha = "0.2"

\* C15: a pick on the legend entry of layer L happens only with the legend
\* drawn, negates L's visibility flag, shows or hides L's primitives to match,
\* leaves every other layer and legend entry alone and leaves L's entry dimmed
\* exactly when L is then invisible; a second pick on the entry restores the
\* layers as they were.  In every state one pick handler is connected when the
\* legend is drawn (show_legend set and at least one layer), and none otherwise.
C15_LegendPick ==
    [][/\ plot'.handlers = IF plot'._show_legend /\ Len(plot'._layers) > 0 THEN 1 ELSE 0
       /\ (plot'.handlers > 0) = (plot'.legend # <<>>)
       /\ last'.op = "on_pick" =>
             LET L == last'.arg
                 i == IndexOfLayer(plot._layers, L)
             IN  /\ plot._show_legend
                 /\ plot'.replots = 0
                 /\ Len(plot'._layers) = Len(plot._layers)
                 /\ plot'._layers[i].visible = ~plot._layers[i].visible
                 /\ plot'._layers[i].lines
                        = [k \in 1..Len(plot._layers[i].lines) |->
                              [plot._layers[i].lines[k]
                                  EXCEPT !.visible = plot'._layers[i].visible]]
                 /\ \A j \in 1..Len(plot._layers) :
                        j # i => plot'._layers[j] = plot._layers[j]
                 /\ Len(plot'.legend) = Len(plot.legend)
                 /\ \A e \in 1..Len(plot.legend) :
                        plot.legend[e].lid # L => plot'.legend[e] = plot.legend[e]
                 /\ Dimmed(plot', L) = ~plot'._layers[i].visible
                 /\ plot'.handlers = 1
                 /\ on_pick(plot', L)._layers = plot._layers]_vars

\* the entry of layer 2 was picked with the points drawn: layer 2 is hidden and
\* its entry dimmed, layer 1 is still shown
C15_Witness ==
    /\ last.op = "on_pick"
    /\ last.arg = 2
    /\ Len(plot._layers) = 2
    /\ plot._layers[1].visible
    /\ ~plot._layers[2].visible
    /\ Len(plot._layers[2].lines) = 2
    /\ Dimmed(plot, 2)
    /\ plot.handlers = 1

---------------------------------------------------------------------------
(* Layer visibility under the layout setters: claim C16, under SpecPlot.   *)

\* C16: a change of a layout setting while a drawing is loaded leaves every
\* layer's visibility flag, and the visibility of its primitives, as it was.
C16_LayoutKeepsVisibility ==
    [][(last'.op \in LayoutSetterOps /\ ~IsEmpty(ctl.base_vector_data)) =>
          /\ Len(plot'._layers) = Len(plot._layers)
          /\ \A i \in 1..Len(plot._layers) :
                /\ plot'._layers[i].lid = plot._layers[i].lid
                /\ plot'._layers[i].visible = plot._layers[i].visible
                /\ \A k \in 1..Len(plot'._layers[i].lines) :
                      plot'._layers[i].lines[k].visible = plot._layers[i].visible]_vars

---------------------------------------------------------------------------
(* The layer list of the control widget: claim C17, under SpecPlot.        *)

\* C17: the layer list holds one item per layer of the current drawing, in
\* the drawing's order, and each item's check state is the visibility flag the
\* plot widget holds for that layer.
C17_ListMatchesRegistry ==
    /\ Len(ctl.list) = Len(ctl.vector_data)
    /\ \A i \in 1..Len(ctl.list) :
          /\ ctl.list[i].lid = ctl.vector_data[i].lid
          /\ ctl.list[i].checked = VisibleFlag(plot._layers, ctl.list[i].lid)

---------------------------------------------------------------------------
(* The scale of fit_page: claim C18, under SpecDegenerate.                 *)

\* the scale update_view computes for the rotated copy of the base drawing
FitScale(c) ==
    With2(Bounds(RotatedCopy(c.base_vector_data, c)), EffectivePage(c), LAMBDA b, size :
        Min(Div(Sub(size[1], Mul(Two, MarginPx(c))), Sub(b[3], b[1])),
            Div(Sub(size[2], Mul(Two, MarginPx(c))), Sub(b[4], b[2]))))

\* C18: update_view raises no error; with fit_page set and a non-empty drawing,
\* also one without width or height, the scale it applies is finite and
\* strictly positive; with an empty drawing it places nothing.
C18_FitScaleFinitePositive ==
    /\ last.err # "ZeroDivisionError"
    /\ (ctl.fit_page /\ ~IsEmpty(ctl.base_vector_data)) =>
           /\ IsFinite(FitScale(ctl))
           /\ Lt(Zero, FitScale(ctl))
    /\ IsEmpty(ctl.base_vector_data) => ctl.vector_data = ctl.base_vector_data

=============================================================================
